---- MODULE Spec2Model ----
(***************************************************************************)
(* Model of src/index.js: the one-shot action that resolves the admins of  *)
(* a repository (direct admin collaborators merged with the members of the *)
(* admin teams), reports the result or any failure as a comment on the     *)
(* tracking issue and optionally closes that issue.                        *)
(*                                                                         *)
(* main() is a single thread of control; one action of the model is one    *)
(* awaited remote call followed by the synchronous code up to the next     *)
(* await (a catch block included).  The remote side answers each call      *)
(* nondeterministically when the call is made.  createComment and          *)
(* issues.update are taken to succeed.                                     *)
(***************************************************************************)
EXTENDS Integers, Sequences, FiniteSets, TLC

\* ------------------------------------------------------------------ bounds
MaxCollaborators == 2
MaxTeams == 2
MaxMembers == 2

Logins == {"alice", "bob", "carol"}
Permissions == {"admin", "push"}
Emails == {"addr", "null"}

SeqsUpTo(S, n) == UNION {[1..k -> S] : k \in 0..n}

\* what listCollaborators can return: {login, permissions.admin}
CollaboratorListings == SeqsUpTo([login : Logins, admin : BOOLEAN], MaxCollaborators)

\* what listTeams can return: the k-th team of the listing has name/slug k
TeamListings ==
  UNION {{[t \in 1..k |-> [name |-> t, permission |-> p[t]]] : p \in [1..k -> Permissions]}
           : k \in 0..MaxTeams}

\* what listMembersInOrg can return
MemberListings == SeqsUpTo(Logins, MaxMembers)

\* ------------------------------------------------------- values and helpers
\* a `let` variable that is still undefined / one that holds a value
Undefined == <<>>
Some(v) == <<v>>
Get(o) == o[1]

\* the tracking issue (issueOrg, repo, issueNumber) and the queried repository
IssueTarget == "issueOrg/repo#issueNumber"
QueryTarget == "org/queryRepo"

Range(s) == {s[k] : k \in 1..Len(s)}
Includes(s, x) == \E k \in 1..Len(s) : s[k] = x

Call(op, who) == [op |-> op, who |-> who]

\* sendComment: the body of the comment as the template literal builds it
Comment(kind, mention, team, lines) ==
  [target |-> IssueTarget, kind |-> kind, mention |-> mention, team |-> team, lines |-> lines]

\* variant: the admin filter is dropped
DirectAdminsUnfiltered(ms) == [k \in 1..Len(ms) |-> ms[k].login]

\* members.filter(member => member.permissions.admin).map(member => member.login)
DirectAdmins(ms) ==
  LET kept == SelectSeq(ms, LAMBDA m : m.admin)
  IN  [k \in 1..Len(kept) |-> kept[k].login]

\* variant: the permission filter is dropped
AdminTeamsUnfiltered(ts) == ts

\* teams.filter(t => t.permission === 'admin')
AdminTeams(ts) == SelectSeq(ts, LAMBDA t : t.permission = "admin")

\* variant: new members are put in front (unshift instead of push)
RECURSIVE MergeUnshift(_, _)
MergeUnshift(a, ms) ==
  IF ms = <<>> THEN a
  ELSE MergeUnshift(IF Includes(a, Head(ms)) THEN a ELSE <<Head(ms)>> \o a, Tail(ms))

\* for (const member of members) if (!admins.includes(member.login)) admins.push(member.login)
RECURSIVE Merge(_, _)
Merge(a, ms) ==
  IF ms = <<>> THEN a
  ELSE Merge(IF Includes(a, Head(ms)) THEN a ELSE Append(a, Head(ms)), Tail(ms))

\* -------------------------------------------------------------------- state
VARIABLES
  closeIssue,   \* input close_issue === 'true'
  pc,           \* where main() is
  repoStatus,   \* answer of repos.get: "none" (not asked), "ok", "404", "error"
  members,      \* let members: Undefined or Some(collaborator listing)
  admins,       \* const admins (the empty sequence before it is declared)
  teams,        \* let teams: Undefined or Some(team listing)
  resp,         \* answers of listMembersInOrg, one per loop iteration so far, with the team asked about
  body,         \* the bullet lines appended to the success body so far
  failed,       \* core.setFailed has been called
  calls,        \* every remote call made, in order
  comments      \* every comment posted, in order

vars == <<closeIssue, pc, repoStatus, members, admins, teams, resp, body, failed, calls, comments>>

Init ==
  /\ closeIssue \in BOOLEAN
  /\ pc = "verify"
  /\ repoStatus = "none"
  /\ members = Undefined
  /\ admins = <<>>
  /\ teams = Undefined
  /\ resp = <<>>
  /\ body = <<>>
  /\ failed = FALSE
  /\ calls = <<>>
  /\ comments = <<>>

\* --------------------------------------------------- existence check (56-69)
VerifyOk ==
  /\ pc = "verify"
  /\ repoStatus' = "ok"
  /\ calls' = Append(calls, Call("repos.get", QueryTarget))
  /\ pc' = "collaborators"
  /\ UNCHANGED <<closeIssue, members, admins, teams, resp, body, failed, comments>>

\* variant: the 404 branch does not return
VerifyNotFoundFallsThrough ==
  /\ pc = "verify"
  /\ repoStatus' = "404"
  /\ calls' = calls \o <<Call("repos.get", QueryTarget), Call("createComment", IssueTarget)>>
  /\ comments' = Append(comments, Comment("RepoNotFound", TRUE, 0, <<>>))
  /\ pc' = "collaborators"
  /\ UNCHANGED <<closeIssue, members, admins, teams, resp, body, failed>>

VerifyNotFound ==
  /\ pc = "verify"
  /\ repoStatus' = "404"
  /\ calls' = calls \o <<Call("repos.get", QueryTarget), Call("createComment", IssueTarget)>>
  /\ comments' = Append(comments, Comment("RepoNotFound", TRUE, 0, <<>>))
  /\ pc' = "returned"
  /\ UNCHANGED <<closeIssue, members, admins, teams, resp, body, failed>>

VerifyError ==
  /\ pc = "verify"
  /\ repoStatus' = "error"
  /\ calls' = calls \o <<Call("repos.get", QueryTarget), Call("createComment", IssueTarget)>>
  /\ comments' = Append(comments, Comment("VerificationError", TRUE, 0, <<>>))
  /\ failed' = TRUE
  /\ pc' = "collaborators"
  /\ UNCHANGED <<closeIssue, members, admins, teams, resp, body>>

\* ------------------------------------------------------ direct admins (71-85)
ListCollaboratorsOk ==
  /\ pc = "collaborators"
  /\ \E ms \in CollaboratorListings :
       /\ members' = Some(ms)
       /\ admins' = DirectAdmins(ms)
  /\ calls' = Append(calls, Call("listCollaborators", QueryTarget))
  /\ pc' = "teams"
  /\ UNCHANGED <<closeIssue, repoStatus, teams, resp, body, failed, comments>>

\* variant: the failed listing is taken as an empty one and the run goes on
ListCollaboratorsFailContinues ==
  /\ pc = "collaborators"
  /\ calls' = calls \o <<Call("listCollaborators", QueryTarget), Call("createComment", IssueTarget)>>
  /\ comments' = Append(comments, Comment("CollaboratorLookupError", TRUE, 0, <<>>))
  /\ failed' = TRUE
  /\ members' = Some(<<>>)
  /\ pc' = "teams"
  /\ UNCHANGED <<closeIssue, repoStatus, admins, teams, resp, body>>

\* the catch block reports, then members.filter throws on the undefined list
ListCollaboratorsFail ==
  /\ pc = "collaborators"
  /\ calls' = calls \o <<Call("listCollaborators", QueryTarget), Call("createComment", IssueTarget)>>
  /\ comments' = Append(comments, Comment("CollaboratorLookupError", TRUE, 0, <<>>))
  /\ failed' = TRUE
  /\ pc' = "rejected"
  /\ UNCHANGED <<closeIssue, repoStatus, members, admins, teams, resp, body>>

\* -------------------------------------------------------- admin teams (87-99)
\* the loop over adminTeams is left as soon as every admin team was iterated
AfterTeam(ts, n) == IF n < Len(AdminTeams(ts)) THEN "members" ELSE "report"

ListTeamsOk ==
  /\ pc = "teams"
  /\ \E ts \in TeamListings :
       /\ teams' = Some(ts)
       /\ pc' = AfterTeam(ts, 0)
  /\ calls' = Append(calls, Call("listTeams", QueryTarget))
  /\ UNCHANGED <<closeIssue, repoStatus, members, admins, resp, body, failed, comments>>

\* the catch block reports, then teams.filter throws on the undefined list
ListTeamsFail ==
  /\ pc = "teams"
  /\ calls' = calls \o <<Call("listTeams", QueryTarget), Call("createComment", IssueTarget)>>
  /\ comments' = Append(comments, Comment("TeamLookupError", TRUE, 0, <<>>))
  /\ failed' = TRUE
  /\ pc' = "rejected"
  /\ UNCHANGED <<closeIssue, repoStatus, members, admins, teams, resp, body>>

\* ------------------------------------------------ team member loop (100-117)
\* the admin team of the current iteration
Team == AdminTeams(Get(teams))[Len(resp) + 1]

TeamMembersOk ==
  /\ pc = "members"
  /\ \E ms \in MemberListings :
       /\ resp' = Append(resp, [team |-> Team.name, ok |-> TRUE, members |-> ms])
       /\ admins' = Merge(admins, ms)
  /\ calls' = Append(calls, Call("listTeamMembers", Team.name))
  /\ pc' = AfterTeam(Get(teams), Len(resp) + 1)
  /\ UNCHANGED <<closeIssue, repoStatus, members, teams, body, failed, comments>>

\* variant: a failing team ends the loop
TeamMembersFailBreaks ==
  /\ pc = "members"
  /\ resp' = Append(resp, [team |-> Team.name, ok |-> FALSE, members |-> <<>>])
  /\ calls' = calls \o <<Call("listTeamMembers", Team.name), Call("createComment", IssueTarget)>>
  /\ comments' = Append(comments, Comment("TeamMemberLookupError", TRUE, Team.name, <<>>))
  /\ failed' = TRUE
  /\ pc' = "report"
  /\ UNCHANGED <<closeIssue, repoStatus, members, admins, teams, body>>

\* variant: the pages read before the failure are merged
TeamMembersFailMergesPages ==
  /\ pc = "members"
  /\ resp' = Append(resp, [team |-> Team.name, ok |-> FALSE, members |-> <<>>])
  /\ \E ms \in MemberListings : admins' = Merge(admins, ms)
  /\ calls' = calls \o <<Call("listTeamMembers", Team.name), Call("createComment", IssueTarget)>>
  /\ comments' = Append(comments, Comment("TeamMemberLookupError", TRUE, Team.name, <<>>))
  /\ failed' = TRUE
  /\ pc' = AfterTeam(Get(teams), Len(resp) + 1)
  /\ UNCHANGED <<closeIssue, repoStatus, members, teams, body>>

TeamMembersFail ==
  /\ pc = "members"
  /\ resp' = Append(resp, [team |-> Team.name, ok |-> FALSE, members |-> <<>>])
  /\ calls' = calls \o <<Call("listTeamMembers", Team.name), Call("createComment", IssueTarget)>>
  /\ comments' = Append(comments, Comment("TeamMemberLookupError", TRUE, Team.name, <<>>))
  /\ failed' = TRUE
  /\ pc' = AfterTeam(Get(teams), Len(resp) + 1)
  /\ UNCHANGED <<closeIssue, repoStatus, members, admins, teams, body>>

\* ---------------------------------------------------------- report (119-132)
\* variant: the empty branch returns after reporting
NoAdminsReturns ==
  /\ pc = "report"
  /\ Len(admins) = 0
  /\ calls' = Append(calls, Call("createComment", IssueTarget))
  /\ comments' = Append(comments, Comment("NoAdminsFound", TRUE, 0, <<>>))
  /\ failed' = TRUE
  /\ pc' = "returned"
  /\ UNCHANGED <<closeIssue, repoStatus, members, admins, teams, resp, body>>

NoAdmins ==
  /\ pc = "report"
  /\ Len(admins) = 0
  /\ calls' = Append(calls, Call("createComment", IssueTarget))
  /\ comments' = Append(comments, Comment("NoAdminsFound", TRUE, 0, <<>>))
  /\ failed' = TRUE
  /\ pc' = "close"
  /\ UNCHANGED <<closeIssue, repoStatus, members, admins, teams, resp, body>>

\* the admin whose e-mail is looked up next
Admin == admins[Len(body) + 1]

\* body += `- ${user.email}\n`
GetUserOk ==
  /\ pc = "report"
  /\ Len(admins) # 0
  /\ Len(body) < Len(admins)
  /\ \E e \in Emails : body' = Append(body, [login |-> Admin, email |-> e])
  /\ calls' = Append(calls, Call("getUserByUsername", Admin))
  /\ UNCHANGED <<closeIssue, pc, repoStatus, members, admins, teams, resp, failed, comments>>

\* the lookup is not inside a try block: main() rejects
GetUserFail ==
  /\ pc = "report"
  /\ Len(admins) # 0
  /\ Len(body) < Len(admins)
  /\ calls' = Append(calls, Call("getUserByUsername", Admin))
  /\ pc' = "rejected"
  /\ UNCHANGED <<closeIssue, repoStatus, members, admins, teams, resp, body, failed, comments>>

\* variant: the issue is closed before the success comment is sent
SuccessCommentAfterClose ==
  /\ pc = "report"
  /\ Len(admins) # 0
  /\ Len(body) = Len(admins)
  /\ calls' = calls \o (IF closeIssue THEN <<Call("issues.update", IssueTarget)>> ELSE <<>>)
                    \o <<Call("createComment", IssueTarget)>>
  /\ comments' = Append(comments, Comment("Success", FALSE, 0, body))
  /\ pc' = "returned"
  /\ UNCHANGED <<closeIssue, repoStatus, members, admins, teams, resp, body, failed>>

\* variant: a login without an e-mail gets no line
SuccessCommentSkipsAbsent ==
  /\ pc = "report"
  /\ Len(admins) # 0
  /\ Len(body) = Len(admins)
  /\ calls' = Append(calls, Call("createComment", IssueTarget))
  /\ comments' = Append(comments,
                        Comment("Success", FALSE, 0, SelectSeq(body, LAMBDA l : l.email # "null")))
  /\ pc' = "close"
  /\ UNCHANGED <<closeIssue, repoStatus, members, admins, teams, resp, body, failed>>

SuccessComment ==
  /\ pc = "report"
  /\ Len(admins) # 0
  /\ Len(body) = Len(admins)
  /\ calls' = Append(calls, Call("createComment", IssueTarget))
  /\ comments' = Append(comments, Comment("Success", FALSE, 0, body))
  /\ pc' = "close"
  /\ UNCHANGED <<closeIssue, repoStatus, members, admins, teams, resp, body, failed>>

\* ----------------------------------------------------------- close (134-141)
\* variant: the update is sent to the queried repository
CloseIssueOnQueryRepo ==
  /\ pc = "close"
  /\ closeIssue
  /\ calls' = Append(calls, Call("issues.update", QueryTarget))
  /\ pc' = "returned"
  /\ UNCHANGED <<closeIssue, repoStatus, members, admins, teams, resp, body, failed, comments>>

CloseIssue ==
  /\ pc = "close"
  /\ closeIssue
  /\ calls' = Append(calls, Call("issues.update", IssueTarget))
  /\ pc' = "returned"
  /\ UNCHANGED <<closeIssue, repoStatus, members, admins, teams, resp, body, failed, comments>>

SkipClose ==
  /\ pc = "close"
  /\ ~closeIssue
  /\ pc' = "returned"
  /\ UNCHANGED <<closeIssue, repoStatus, members, admins, teams, resp, body, failed, calls, comments>>

Next ==
  \/ VerifyOk
  \/ VerifyNotFound
  \/ VerifyError
  \/ ListCollaboratorsOk
  \/ ListCollaboratorsFail
  \/ ListTeamsOk
  \/ ListTeamsFail
  \/ TeamMembersOk
  \/ TeamMembersFail
  \/ NoAdmins
  \/ GetUserOk
  \/ GetUserFail
  \/ SuccessComment
  \/ CloseIssue
  \/ SkipClose

Spec == Init /\ [][Next]_vars

\* ============================================================== properties
Made(op) == {k \in 1..Len(calls) : calls[k].op = op}
Posted(kind) == {k \in 1..Len(comments) : comments[k].kind = kind}
Ended == pc \in {"returned", "rejected"}
\* the team loop has been run and left
LoopDone == teams # Undefined /\ pc # "members"
Min(S) == CHOOSE m \in S : \A n \in S : m <= n

\* C1: when repos.get answers 404, the run makes no listCollaborators, listTeams,
\* listTeamMembers or getUserByUsername call and posts exactly one comment, the
\* repository-does-not-exist one.
C1_NotFoundHalts ==
  repoStatus = "404" =>
    /\ \A op \in {"listCollaborators", "listTeams", "listTeamMembers", "getUserByUsername"} :
         Made(op) = {}
    /\ Len(comments) = 1
    /\ comments[1].kind = "RepoNotFound"
    /\ Cardinality(Made("createComment")) = 1
    /\ pc = "returned"

C1_Witness == repoStatus = "404" /\ pc = "returned" /\ Len(comments) = 1

\* C2: at every point of the run the admins array contains no login twice,
\* whatever the collaborator listing and the team-member listings are.
C2_NoDuplicateAdmins ==
  \A a, b \in 1..Len(admins) : a # b => admins[a] # admins[b]

\* C3: in the admin set every login first seen in the collaborator listing
\* precedes every login first seen through team expansion; the latter are
\* ordered by the first admin team (in team-listing order) that contributed
\* them and, within one team, by their place in its member listing.
Direct == {Get(members)[k].login : k \in {j \in 1..Len(Get(members)) : Get(members)[j].admin}}
\* the place in the team listing of the first team whose listing gave login x
FirstTeam(x) == Min({resp[k].team : k \in {j \in 1..Len(resp) : resp[j].ok /\ Includes(resp[j].members, x)}})
MembersOf(t) == (CHOOSE r \in Range(resp) : r.team = t).members
FirstPlace(x, t) == Min({q \in 1..Len(MembersOf(t)) : MembersOf(t)[q] = x})

C3_AdminOrder ==
  members # Undefined =>
    /\ \A a \in 1..Len(admins) :
         admins[a] \notin Direct =>
           \E k \in 1..Len(resp) : resp[k].ok /\ Includes(resp[k].members, admins[a])
    /\ \A a, b \in 1..Len(admins) :
      a < b =>
        LET x == admins[a]
            y == admins[b]
        IN  /\ y \in Direct => x \in Direct
            /\ (x \notin Direct /\ y \notin Direct) =>
                 \/ FirstTeam(x) < FirstTeam(y)
                 \/ /\ FirstTeam(x) = FirstTeam(y)
                    /\ FirstPlace(x, FirstTeam(x)) < FirstPlace(y, FirstTeam(y))

C3_Witness ==
  /\ pc = "returned"
  /\ members # Undefined
  /\ Len(admins) = 3
  /\ admins[1] \in Direct
  /\ admins[2] \notin Direct
  /\ admins[3] \notin Direct
  /\ FirstTeam(admins[2]) < FirstTeam(admins[3])
  /\ Includes(MembersOf(FirstTeam(admins[3])), admins[1])

\* C4: when the member listing of admin team T fails, the loop still asks for
\* every admin team of the listing, before and after T; every member of an
\* admin team U whose listing succeeds is in the final admin set, and exactly
\* one failure comment names T.
C4_PartialFailure ==
  LoopDone =>
    \A t \in 1..Len(resp) :
      ~resp[t].ok =>
        /\ Len(resp) = Len(AdminTeams(Get(teams)))
        /\ \A k \in 1..Len(resp) : resp[k].team = AdminTeams(Get(teams))[k].name
        /\ \A u \in 1..Len(resp) : resp[u].ok => Range(resp[u].members) \subseteq Range(admins)
        /\ Cardinality({c \in Posted("TeamMemberLookupError") : comments[c].team = resp[t].team}) = 1

C4_Witness ==
  /\ pc = "returned"
  /\ LoopDone
  /\ Len(resp) = 2
  /\ ~resp[1].ok
  /\ resp[2].ok
  /\ Len(resp[2].members) > 0
  /\ Range(resp[2].members) \cap Direct = {}

\* C5: when the merged admin set is empty after the team loop, the no-admins
\* comment is posted, no getUserByUsername call and no success comment is made,
\* and with close_issue set the issue is then closed.
C5_EmptyAdminSet ==
  (LoopDone /\ Len(admins) = 0) =>
    /\ Made("getUserByUsername") = {}
    /\ Posted("Success") = {}
    /\ pc \in {"report", "close", "returned"}
    /\ pc # "report" => Cardinality(Posted("NoAdminsFound")) = 1
    /\ (pc = "returned" /\ closeIssue) =>
         /\ Cardinality(Made("issues.update")) = 1
         /\ \A c \in Made("createComment") : \A u \in Made("issues.update") : c < u

C5_Witness ==
  /\ LoopDone
  /\ Len(admins) = 0
  /\ pc = "returned"
  /\ closeIssue
  /\ Made("issues.update") # {}

\* C6: every run that ends with a non-success outcome (a failure comment of any
\* kind was posted) has called core.setFailed by its end.
C6_FailureStatusSet ==
  (Ended /\ \E k \in 1..Len(comments) : comments[k].kind # "Success") => failed

\* C7: every run that does not end by posting the success comment has posted at
\* least one comment by its end, whichever remote call failed.
C7_AlwaysExplained ==
  (Ended /\ Posted("Success") = {}) => Len(comments) >= 1

\* C8: in a run in which the existence check, the collaborator listing or the
\* team listing failed the issue is never closed; the close call only follows
\* the success comment or the no-admins comment.
C8_NoCloseAfterEarlyFailure ==
  /\ (\/ repoStatus \in {"404", "error"}
      \/ Posted("CollaboratorLookupError") # {}
      \/ Posted("TeamLookupError") # {}) => Made("issues.update") = {}
  /\ Made("issues.update") # {} => Posted("Success") \cup Posted("NoAdminsFound") # {}

\* C9: every createComment call precedes the issue-close call, and the close
\* call is never made before at least one comment was posted.
C9_CommentsBeforeClose ==
  \A u \in Made("issues.update") :
    /\ \A c \in Made("createComment") : c < u
    /\ Made("createComment") # {}

C9_Witness ==
  /\ pc = "returned"
  /\ Made("issues.update") # {}
  /\ Len(comments) >= 2

\* C10: when no remote call fails, the admin set is the logins of the admin
\* collaborators in listing order followed by the members of the admin teams,
\* in team-listing and member order, each kept at its first occurrence only if
\* no admin collaborator has that login; [alice(admin), bob] gives [alice], and
\* with an admin team [alice, carol] it gives [alice, carol].
NoCallFailed ==
  /\ repoStatus = "ok"
  /\ LoopDone
  /\ pc # "rejected"
  /\ \A k \in 1..Len(resp) : resp[k].ok

RECURSIVE AdminLogins(_)
AdminLogins(ms) ==
  IF ms = <<>> THEN <<>>
  ELSE (IF Head(ms).admin THEN <<Head(ms).login>> ELSE <<>>) \o AdminLogins(Tail(ms))

\* the member listings of the teams t..Len(ts) of the listing that are admin teams
RECURSIVE TeamLogins(_, _)
TeamLogins(ts, t) ==
  IF t > Len(ts) THEN <<>>
  ELSE (IF ts[t].permission = "admin" THEN MembersOf(ts[t].name) ELSE <<>>) \o TeamLogins(ts, t + 1)

\* s without the entries that are in D or occurred earlier in s
FirstNew(s, D) ==
  LET keep == {k \in 1..Len(s) : s[k] \notin D /\ \A j \in 1..(k - 1) : s[j] # s[k]}
      nth(n) == CHOOSE k \in keep : Cardinality({j \in keep : j < k}) = n - 1
  IN  [n \in 1..Cardinality(keep) |-> s[nth(n)]]

AliceBob == <<[login |-> "alice", admin |-> TRUE], [login |-> "bob", admin |-> FALSE]>>

C10_ResolvedAdmins ==
  NoCallFailed =>
    /\ admins = AdminLogins(Get(members)) \o FirstNew(TeamLogins(Get(teams), 1), Direct)
    /\ (Get(members) = AliceBob /\ AdminTeams(Get(teams)) = <<>>) => admins = <<"alice">>
    /\ (Get(members) = AliceBob /\ Len(resp) = 1 /\ resp[1].members = <<"alice", "carol">>)
         => admins = <<"alice", "carol">>

C10_Witness ==
  /\ NoCallFailed
  /\ pc = "returned"
  /\ Get(members) = AliceBob
  /\ Len(resp) = 1
  /\ resp[1].members = <<"alice", "carol">>
  /\ admins = <<"alice", "carol">>


\* C11: the success comment has exactly one bullet line per login of the admin
\* set, in admin-set order, each made from the answer of that login's
\* getUserByUsername call; a login without an e-mail still gets its line.
C11_SuccessLines ==
  \A c \in Posted("Success") :
    LET lines == comments[c].lines
        lookups == Made("getUserByUsername")
    IN  /\ Len(lines) = Len(admins)
        /\ Cardinality(lookups) = Len(admins)
        /\ \A k \in 1..Len(lines) :
             /\ lines[k].login = admins[k]
             /\ lines[k].email \in Emails
             /\ \E q \in lookups :
                  /\ calls[q].who = admins[k]
                  /\ Cardinality({j \in lookups : j < q}) = k - 1

C11_Witness ==
  /\ pc = "returned"
  /\ \E c \in Posted("Success") :
       /\ Len(comments[c].lines) >= 2
       /\ comments[c].lines[1].email = "null"
       /\ comments[c].lines[2].email = "addr"

\* C12: every comment body posted, the success comment included, begins with
\* the @actor mention.
C12_AlwaysMentionsActor ==
  \A k \in 1..Len(comments) : comments[k].mention

\* C13: when the existence check fails with an error other than not-found, no
\* listCollaborators, listTeams, listTeamMembers or getUserByUsername call is
\* made in that run.
C13_VerificationErrorHalts ==
  repoStatus = "error" =>
    \A op \in {"listCollaborators", "listTeams", "listTeamMembers", "getUserByUsername"} :
      Made(op) = {}

\* C14: after a failed collaborator listing there is no listTeams,
\* listTeamMembers, getUserByUsername or issue-close call; after a failed team
\* listing there is no listTeamMembers, getUserByUsername or issue-close call.
C14_ListingFailureHalts ==
  /\ Posted("CollaboratorLookupError") # {} =>
       \A op \in {"listTeams", "listTeamMembers", "getUserByUsername", "issues.update"} :
         Made(op) = {}
  /\ Posted("TeamLookupError") # {} =>
       \A op \in {"listTeamMembers", "getUserByUsername", "issues.update"} :
         Made(op) = {}

C14_Witness ==
  /\ Ended
  /\ repoStatus = "error"
  /\ Posted("CollaboratorLookupError") # {}
  /\ Made("listCollaborators") # {}

\* C15: no run ends with an uncaught exception, whichever of the existence
\* check, the collaborator listing, the team listing and the member listings
\* fail: a run in which no user lookup failed ends with a normal return.
C15_NoUncaughtException ==
  pc = "rejected" => calls[Len(calls)].op = "getUserByUsername"

\* C16: in a run in which the existence check, the collaborator listing or the
\* team listing failed, exactly one comment is posted over the whole run.
C16_EarlyFailureReportedOnce ==
  (/\ Ended
   /\ \/ repoStatus \in {"404", "error"}
      \/ Posted("CollaboratorLookupError") # {}
      \/ Posted("TeamLookupError") # {}) => Len(comments) = 1

\* C17: the member listing is asked exactly once for each team of the team
\* listing whose permission is admin, in team-listing order, and never for
\* another team; no login enters the admin set through a team that is not admin.
AskedFor(t) == {q \in Made("listTeamMembers") : calls[q].who = t}

C17_OnlyAdminTeamsExpanded ==
  teams # Undefined =>
    LET ts == Get(teams)
    IN  /\ \A q \in Made("listTeamMembers") : calls[q].who \in 1..Len(ts)
        /\ \A t \in 1..Len(ts) :
             /\ ts[t].permission # "admin" => AskedFor(t) = {}
             /\ Cardinality(AskedFor(t)) <= 1
             /\ (LoopDone /\ ts[t].permission = "admin") => Cardinality(AskedFor(t)) = 1
        /\ \A q, r \in Made("listTeamMembers") : q < r => calls[q].who < calls[r].who
        /\ \A k \in 1..Len(resp) : ts[resp[k].team].permission = "admin"
        /\ Range(admins) \subseteq
             Direct \cup UNION {Range(resp[k].members) : k \in 1..Len(resp)}

C17_Witness ==
  /\ LoopDone
  /\ pc = "returned"
  /\ Len(Get(teams)) = 2
  /\ Get(teams)[1].permission = "push"
  /\ Get(teams)[2].permission = "admin"
  /\ Cardinality(AskedFor(2)) = 1
  /\ Len(admins) > 0

\* C18: with close_issue false the issue-close call is never made; with it
\* true the call is made at most once, on the tracking issue on which every
\* comment was posted and never on the queried repository.
C18_CloseOnlyTrackingIssue ==
  /\ ~closeIssue => Made("issues.update") = {}
  /\ Cardinality(Made("issues.update")) <= 1
  /\ \A u \in Made("issues.update") : calls[u].who = IssueTarget /\ calls[u].who # QueryTarget
  /\ \A c \in Made("createComment") : calls[c].who = IssueTarget
  /\ \A k \in 1..Len(comments) : comments[k].target = IssueTarget

C18_Witness ==
  /\ closeIssue
  /\ pc = "returned"
  /\ Cardinality(Made("issues.update")) = 1
  /\ Posted("Success") # {}

\* C19: a team whose member listing fails leaves the admin set as it was, and
\* after the loop the admin set is the direct admins followed by the new
\* members of exactly the admin teams whose listing succeeded.
\* the member listings of the iterations k..Len(resp) that succeeded
RECURSIVE OkLogins(_)
OkLogins(k) ==
  IF k > Len(resp) THEN <<>>
  ELSE (IF resp[k].ok THEN resp[k].members ELSE <<>>) \o OkLogins(k + 1)

FailedIteration == Len(resp') = Len(resp) + 1 /\ ~resp'[Len(resp')].ok

C19_FailedTeamAddsNothing ==
  /\ [][FailedIteration => admins' = admins]_vars
  /\ [](LoopDone => admins = AdminLogins(Get(members)) \o FirstNew(OkLogins(1), Direct))

C19_Witness ==
  /\ LoopDone
  /\ Len(resp) = 2
  /\ resp[1].ok
  /\ Len(resp[1].members) > 0
  /\ ~resp[2].ok
  /\ Len(admins) > Len(AdminLogins(Get(members)))

\* ------------------------------------------------------------ typing
TypeOK ==
  /\ closeIssue \in BOOLEAN
  /\ pc \in {"verify", "collaborators", "teams", "members", "report", "close", "returned", "rejected"}
  /\ repoStatus \in {"none", "ok", "404", "error"}
  /\ failed \in BOOLEAN
  /\ Len(resp) <= MaxTeams
  /\ Len(body) <= Len(admins)

====
